---- MODULE Spec2Model ----
(***************************************************************************)
(* A model of src/src/utils.ts: loadBinaryResource, the bounded pool of    *)
(* download "threads" (concurrent async functions), _loadBinaryResource,   *)
(* the cache-aware single fetch over XMLHttpRequest, and getBinarySize,    *)
(* the Content-Length probe.                                               *)
(*                                                                         *)
(* JavaScript runs one turn at a time: a turn is an event handler or a     *)
(* promise continuation together with every continuation it makes ready.   *)
(* Each action below is one such turn.  What lies outside the file (the    *)
(* network, the Cache API) is the environment: it decides which event      *)
(* comes next.                                                             *)
(***************************************************************************)
EXTENDS Integers, Sequences, FiniteSets, TLC

\* ------------------------------------------------------------- bounds
\* The resource identifiers a call may name, and the bytes the server holds.
Urls == {"a", "b"}
\* Longest url list of a call.
MaxUrls == 3
\* Largest nMaxParallel of a call.
MaxThreads == 2
\* Longest url list of a call against a server whose headers may be malformed.
MaxProbeUrls == 2
\* Largest total size of the urls of a call, in bytes.
MaxBytes == 4

Content(u) == IF u = "a" THEN <<97>> ELSE <<98, 98>>

\* ----------------------------------------------------- JS numbers
\* A JS number is an integer, -0 or NaN (the probe's sizes and their sum).
Num(v) == [nan |-> FALSE, v |-> v, neg0 |-> FALSE]
NegZero == [nan |-> FALSE, v |-> 0, neg0 |-> TRUE]
NaN == [nan |-> TRUE, v |-> 0, neg0 |-> FALSE]
Plus(x, y) == IF x.nan \/ y.nan THEN NaN ELSE Num(x.v + y.v)

VARIABLES
  url,              \* argument: [isArray, val], a string or an array of strings
  nMaxParallel,     \* argument
  progressCallback, \* argument: "undefined" or "function"
  caches,           \* window.caches: [present, store], store: url -> bytes
  headers,          \* the server: url -> the Content-Length header it answers
  probesSent,       \* getBinarySize requests sent so far
  mainPc,           \* where loadBinaryResource itself is
  tasks,            \* the tasks array
  sizeArr,          \* the getBinarySize promises of the call
  totalSize,        \* let totalSize
  threads,          \* the threads array: one promise per runDownloadThread()
  fx,               \* per task: the _loadBinaryResource call made for it
  outcome,          \* how the promise loadBinaryResource returned has settled
  cbLast            \* the caller's progressCallback: called yet, its latest argument

vars == <<url, nMaxParallel, progressCallback, caches, headers, probesSent, mainPc, tasks, sizeArr,
          totalSize, threads, fx, outcome, cbLast>>

\* ------------------------------------------------- strings to numbers
\* A header text is a sequence of characters.
Digits == <<"0", "1", "2", "3", "4", "5", "6", "7", "8", "9">>
HexLower == Digits \o <<"a", "b", "c", "d", "e", "f">>
HexUpper == Digits \o <<"A", "B", "C", "D", "E", "F">>
\* The white space + and parseInt skip (StrWhiteSpaceChar): space, tab, line
\* feed, carriage return, form feed, then U+000B, U+00A0, U+1680 and U+FEFF.
\* getResponseHeader (line 59) gives a byte string, whose characters are
\* below U+0100; the white space U+2000..U+200A, U+2028, U+2029, U+202F,
\* U+205F and U+3000 cannot be written in a string of a module and is left out.
WhiteSpace == {" ", "\t", "\n", "\r", "\f", "", " ", " ", "﻿"}

\* The value of c as a digit, 16 when it is none.
RadixVal(c) ==
  IF \E d \in 1..16 : HexLower[d] = c THEN (CHOOSE d \in 1..16 : HexLower[d] = c) - 1
  ELSE IF \E d \in 1..16 : HexUpper[d] = c THEN (CHOOSE d \in 1..16 : HexUpper[d] = c) - 1
  ELSE 16
IsRadixDigit(c, r) == RadixVal(c) < r
IsDigit(c) == IsRadixDigit(c, 10)

RECURSIVE DecimalText(_)
DecimalText(n) ==
  IF n < 10 THEN <<Digits[n + 1]>>
  ELSE Append(DecimalText(n \div 10), Digits[(n % 10) + 1])

Take(s, n) == SubSeq(s, 1, n)
Drop(s, n) == SubSeq(s, n + 1, Len(s))

\* The length of the longest prefix of s made of digits of radix r.
RECURSIVE RadixPrefixLen(_, _)
RadixPrefixLen(s, r) ==
  IF s = <<>> \/ ~IsRadixDigit(Head(s), r) THEN 0
  ELSE 1 + RadixPrefixLen(Tail(s), r)

\* The value of the digits s of radix r, read after acc.
RECURSIVE RadixValue(_, _, _)
RadixValue(s, r, acc) ==
  IF s = <<>> THEN acc
  ELSE RadixValue(Tail(s), r, r * acc + RadixVal(Head(s)))

RECURSIVE TrimStart(_)
TrimStart(s) == IF s # <<>> /\ Head(s) \in WhiteSpace THEN TrimStart(Tail(s)) ELSE s
RECURSIVE TrimEnd(_)
TrimEnd(s) ==
  IF s # <<>> /\ s[Len(s)] \in WhiteSpace THEN TrimEnd(Take(s, Len(s) - 1)) ELSE s

AllDigits(s) == \A k \in 1..Len(s) : IsDigit(s[k])
HasSign(s) == s # <<>> /\ Head(s) \in {"-", "+"}
Unsigned(s) == IF HasSign(s) THEN Tail(s) ELSE s
Signed(s, v) == IF HasSign(s) /\ Head(s) = "-" THEN 0 - v ELSE v

\* The number a numeric string denotes: NaN, an infinity (v its sign), or
\* the double nearest to v * 10^e.  An integer of up to nine digits has
\* e = 0; otherwise v has no trailing zero.  neg tells -0 from 0.
Dec(v, e) == [nan |-> FALSE, inf |-> FALSE, v |-> v, e |-> e, neg |-> v < 0]
DecZero(sign) == [nan |-> FALSE, inf |-> FALSE, v |-> 0, e |-> 0, neg |-> sign < 0]
DecNaN == [nan |-> TRUE, inf |-> FALSE, v |-> 0, e |-> 0, neg |-> FALSE]
DecInfinity(sign) == [nan |-> FALSE, inf |-> TRUE, v |-> sign, e |-> 0, neg |-> sign < 0]

RECURSIVE Pow10(_)
Pow10(n) == IF n = 0 THEN 1 ELSE 10 * Pow10(n - 1)
RECURSIVE NumDigits(_)
NumDigits(n) == IF n < 10 THEN 1 ELSE 1 + NumDigits(n \div 10)
\* How many zeros n > 0 ends with.
RECURSIVE TrailingZeros(_)
TrailingZeros(n) == IF n % 10 # 0 THEN 0 ELSE 1 + TrailingZeros(n \div 10)

\* The first digits of 2^1024 - 2^970 = 1.797693134862315807...e308, from
\* which a value rounds to an infinity, and of 2^-1075 = 2.470328229206232720...e-324,
\* up to which a value rounds to zero.
OverflowDigits == 1797693134
UnderflowDigits == 247032822

\* v, of d <= 10 digits and below 2^31, times the power of ten that puts its
\* first digit at 10^308 overflows; at 10^-324 it underflows (one of ten
\* digits is below 2470328229).
Overflows(v, d) == v > OverflowDigits \div Pow10(10 - d)
Underflows(v, d) == d = 10 \/ v <= UnderflowDigits \div Pow10(9 - d)

\* sign * m * 10^x for m >= 0, as a double holds it: from 2^1024 - 2^970 on an
\* infinity, up to 2^-1075 a zero.  v is m without its trailing zeros, of d
\* digits, and g the power of ten of its first digit.
Scaled(sign, m, x) ==
  IF m = 0 THEN DecZero(sign)
  ELSE LET z == TrailingZeros(m)
           v == m \div Pow10(z)
           e == x + z
           d == NumDigits(v)
           g == d + e - 1
       IN IF g > 308 \/ (g = 308 /\ Overflows(v, d))
          THEN DecInfinity(sign)
          ELSE IF g < 0 - 324 \/ (g = 0 - 324 /\ Underflows(v, d))
          THEN DecZero(sign)
          ELSE IF e >= 0 /\ d + e <= 9 THEN Dec(sign * v * Pow10(e), 0)
          ELSE Dec(sign * v, e)

\* 0x, 0o or 0b and digits of that radix, unsigned.
NonDecimalRadix(s) ==
  IF Len(s) < 2 \/ s[1] # "0" THEN 0
  ELSE IF s[2] \in {"x", "X"} THEN 16
  ELSE IF s[2] \in {"o", "O"} THEN 8
  ELSE IF s[2] \in {"b", "B"} THEN 2
  ELSE 0

\* An optional sign, then Infinity, or digits with an optional fraction and
\* an optional exponent; a digit is required before or after the point.
StrDecimalLiteral(s) ==
  LET sign == Signed(s, 1)
      u == Unsigned(s)
      a == RadixPrefixLen(u, 10)
      r1 == Drop(u, a)
      dot == r1 # <<>> /\ Head(r1) = "."
      r2 == IF dot THEN Tail(r1) ELSE r1
      b == IF dot THEN RadixPrefixLen(r2, 10) ELSE 0
      r3 == Drop(r2, b)
      hasExp == r3 # <<>> /\ Head(r3) \in {"e", "E"}
      x == IF hasExp THEN Tail(r3) ELSE <<>>
      xd == Unsigned(x)
      wellFormed ==
        /\ a > 0 \/ b > 0
        /\ hasExp \/ r3 = <<>>
        /\ hasExp => (xd # <<>> /\ AllDigits(xd))
  IN IF u = <<"I", "n", "f", "i", "n", "i", "t", "y">> THEN DecInfinity(sign)
     ELSE IF ~wellFormed THEN DecNaN
     ELSE Scaled(sign, RadixValue(Take(u, a) \o Take(r2, b), 10, 0),
                 (IF hasExp THEN Signed(x, RadixValue(xd, 10, 0)) ELSE 0) - b)

\* +value (line 61): white space is trimmed; the empty string is 0; then a
\* 0x, 0o or 0b literal, or a decimal literal; anything else is NaN.
ToNumber(s) ==
  LET t == TrimEnd(TrimStart(s))
      r == NonDecimalRadix(t)
  IN IF t = <<>> THEN DecZero(1)
     ELSE IF r # 0
     THEN IF Len(t) > 2 /\ RadixPrefixLen(Drop(t, 2), r) = Len(t) - 2
          THEN Scaled(1, RadixValue(Drop(t, 2), r, 0), 0)
          ELSE DecNaN
     ELSE StrDecimalLiteral(t)

\* parseInt(value) (line 64): leading white space is skipped, then an
\* optional sign, then after 0x the longest prefix of hexadecimal digits and
\* otherwise the longest prefix of decimal digits; NaN when there is no
\* digit, -0 when the digits after a minus sign are zero.
ParseInt(s) ==
  LET t == TrimStart(s)
      u == Unsigned(t)
      r == IF NonDecimalRadix(u) = 16 THEN 16 ELSE 10
      d == IF r = 16 THEN Drop(u, 2) ELSE u
      n == RadixPrefixLen(d, r)
      v == RadixValue(Take(d, n), r, 0)
  IN IF n = 0 THEN NaN
     ELSE IF v = 0 /\ Signed(t, 1) < 0 THEN NegZero
     ELSE Num(Signed(t, v))

\* What getResponseHeader('Content-Length') may give for u: null, the
\* length of the body, a negative number, a number followed by a letter, a
\* fraction.
NullHeader == [null |-> TRUE, text |-> <<>>]
Header(s) == [null |-> FALSE, text |-> s]
LengthHeader(u) == Header(DecimalText(Len(Content(u))))
HeaderValues(u) ==
  {NullHeader, LengthHeader(u), Header(<<"-", "1">>), Header(<<"1", "x">>),
   Header(<<"1", ".", "5">>)}

\* getBinarySize at readyState 2: [ok, value] of the promise it settles.
getBinarySize(h) ==
  LET value == IF h.null THEN <<>> ELSE h.text IN
  IF ToNumber(value).nan THEN [ok |-> FALSE, value |-> NaN]
  ELSE [ok |-> TRUE, value |-> ParseInt(value)]

\* arr.reduce((prev, curr) => prev + curr, 0) (line 193).
RECURSIVE sumArr(_)
sumArr(arr) == IF arr = <<>> THEN Num(0) ELSE Plus(arr[1], sumArr(Tail(arr)))

\* ------------------------------------------------------------ the call
\* Mutant of reportProgress: the sizes are probed whatever the caller passed.
reportProgressAlways(cb) == TRUE

\* progressCallback && typeof progressCallback === 'function' (line 94).
reportProgress(cb) == cb # "undefined" /\ cb = "function"

UrlList(u) == IF u.isArray THEN u.val ELSE <<u.val>>

NewTask(u) ==
  [url |-> u, result |-> <<>>, started |-> FALSE, sizeTotal |-> 0, sizeLoaded |-> 0]

\* The _loadBinaryResource call of a task, before it is made.
NoFetch ==
  [state |-> "none", thread |-> 0, lookup |-> "none", opened |-> FALSE,
   progressed |-> FALSE, xhrEvent |-> "none", putEvent |-> "none"]

Pending == [kind |-> "pending", val |-> <<>>]

TotalBytes(s) == sumArr([i \in 1..Len(s) |-> Num(Len(Content(s[i])))]).v
UrlSeqs ==
  {s \in UNION {[1..n -> Urls] : n \in 0..MaxUrls} : TotalBytes(s) <= MaxBytes}
UrlArgs ==
  {[isArray |-> FALSE, val |-> u] : u \in Urls}
    \cup {[isArray |-> TRUE, val |-> s] : s \in UrlSeqs}

\* The stores an earlier call can have left: what it downloaded, as it was.
CacheStores == {[u \in S |-> Content(u)] : S \in SUBSET Urls}
CachesValues ==
  {[present |-> FALSE, store |-> << >>]}
    \cup {[present |-> TRUE, store |-> st] : st \in CacheStores}

Init ==
  /\ url \in UrlArgs
  /\ nMaxParallel \in 0..MaxThreads
  /\ progressCallback \in {"undefined", "function"}
  /\ caches \in CachesValues
  /\ headers = [u \in Urls |-> LengthHeader(u)]
  /\ probesSent = 0
  /\ mainPc = "called"
  /\ tasks = <<>>
  /\ sizeArr = <<>>
  /\ totalSize = Num(0 - 1)
  /\ threads = <<>>
  /\ fx = <<>>
  /\ outcome = Pending
  /\ cbLast = [called |-> FALSE, loaded |-> 0, total |-> Num(0)]

\* Lines 94-118 up to the first await: the tasks, and with a progress
\* callback one getBinarySize request per url.
Begin ==
  /\ mainPc = "called"
  /\ LET urls == UrlList(url) IN
     /\ tasks' = [i \in 1..Len(urls) |-> NewTask(urls[i])]
     /\ fx' = [i \in 1..Len(urls) |-> NoFetch]
     /\ IF reportProgress(progressCallback)
        THEN /\ sizeArr' = [i \in 1..Len(urls) |-> [state |-> "pending", value |-> NaN]]
             /\ probesSent' = Len(urls)
             /\ mainPc' = IF Len(urls) = 0 THEN "spawn" ELSE "probing"
             /\ totalSize' = IF Len(urls) = 0 THEN sumArr(<<>>) ELSE totalSize
        ELSE /\ mainPc' = "spawn"
             /\ UNCHANGED <<sizeArr, totalSize, probesSent>>
  /\ UNCHANGED <<url, nMaxParallel, progressCallback, headers, caches, threads,
                 outcome, cbLast>>

\* The same call against a server that may answer any of HeaderValues.
HeaderMaps ==
  {h \in [Urls -> UNION {HeaderValues(u) : u \in Urls}] :
     \A u \in Urls : h[u] \in HeaderValues(u)}

\* The call is made with a progress callback and a cache that holds "a"; the
\* urls it does not name keep their well-formed header.
InitHeaders ==
  /\ url \in {a \in UrlArgs : Len(UrlList(a)) <= MaxProbeUrls}
  /\ nMaxParallel \in 0..MaxThreads
  /\ progressCallback = "function"
  /\ caches = [present |-> TRUE, store |-> [u \in {"a"} |-> Content(u)]]
  /\ headers \in {h \in HeaderMaps :
                    \A u \in Urls :
                      (\A i \in 1..Len(UrlList(url)) : UrlList(url)[i] # u) =>
                        h[u] = LengthHeader(u)}
  /\ probesSent = 0
  /\ mainPc = "called"
  /\ tasks = <<>>
  /\ sizeArr = <<>>
  /\ totalSize = Num(0 - 1)
  /\ threads = <<>>
  /\ fx = <<>>
  /\ outcome = Pending
  /\ cbLast = [called |-> FALSE, loaded |-> 0, total |-> Num(0)]

\* ------------------------------------------------------ the size probe
AllResolved(arr) == \A i \in 1..Len(arr) : arr[i].state = "resolved"

\* Mutant of ProbesState: wait for every probe and go on whatever they gave,
\* as Promise.allSettled would.
ProbesStateAllSettled(arr) ==
  IF \A i \in 1..Len(arr) : arr[i].state # "pending" THEN "fulfilled" ELSE "pending"

\* Promise.all(urls.map(u => getBinarySize(u))) (line 116): rejected as soon
\* as one probe is, fulfilled once all are resolved.
ProbesState(arr) ==
  IF \E i \in 1..Len(arr) : arr[i].state = "rejected" THEN "rejected"
  ELSE IF AllResolved(arr) THEN "fulfilled"
  ELSE "pending"

\* await Promise.all(urls.map(getBinarySize)) once probe i has settled as r:
\* the first rejection rejects the call, the last resolution sums the sizes.
ProbeSettled(i, r) ==
  LET arr == [sizeArr EXCEPT ![i] =
                [state |-> IF r.ok THEN "resolved" ELSE "rejected", value |-> r.value]]
      all == IF mainPc = "probing" THEN ProbesState(arr) ELSE "settled"
  IN
  \* sizeArr is local to the block of lines 115-118
  /\ sizeArr' = IF all = "fulfilled" THEN <<>> ELSE arr
  /\ IF all = "rejected"
     THEN /\ mainPc' = "rejected"
          /\ outcome' = [kind |-> "error", val |-> <<"probe", i>>]
          /\ UNCHANGED totalSize
     ELSE IF all = "fulfilled"
     THEN /\ mainPc' = "spawn"
          /\ totalSize' = sumArr([k \in 1..Len(arr) |-> arr[k].value])
          /\ UNCHANGED outcome
     ELSE UNCHANGED <<mainPc, totalSize, outcome>>
  /\ UNCHANGED <<url, nMaxParallel, progressCallback, headers, probesSent, caches, tasks, threads, fx,
                 cbLast>>

\* req.onreadystatechange with readyState 2 (lines 57-66).
ProbeHeaders ==
  \E i \in 1..Len(sizeArr) :
    /\ sizeArr[i].state = "pending"
    /\ ProbeSettled(i, getBinarySize(headers[tasks[i].url]))

\* req.onerror of the probe (lines 68-70).
ProbeError ==
  \E i \in 1..Len(sizeArr) :
    /\ sizeArr[i].state = "pending"
    /\ ProbeSettled(i, [ok |-> FALSE, value |-> NaN])

\* ------------------------------------------------------ the worker pool
\* Mutant of FindUnstarted: the last unstarted task instead of the first.
FindLastUnstarted(ts) ==
  IF \E i \in 1..Len(ts) : ~ts[i].started
  THEN CHOOSE i \in 1..Len(ts) :
         ~ts[i].started /\ \A j \in (i + 1)..Len(ts) : ts[j].started
  ELSE 0

\* Mutant of FindUnstarted: the first task without a result, started or not.
FindUnfinished(ts) ==
  IF \E i \in 1..Len(ts) : ts[i].result = <<>>
  THEN CHOOSE i \in 1..Len(ts) :
         ts[i].result = <<>> /\ \A j \in 1..(i - 1) : ts[j].result # <<>>
  ELSE 0

\* tasks.find(t => !t.started): the index of the first unstarted task, 0 if none.
FindUnstarted(ts) ==
  IF \E i \in 1..Len(ts) : ~ts[i].started
  THEN CHOOSE i \in 1..Len(ts) :
         ~ts[i].started /\ \A j \in 1..(i - 1) : ts[j].started
  ELSE 0

\* _loadBinaryResource up to its first await (lines 5-12, 24-47): with
\* window.caches it awaits caches.open, without it the request is sent.
StartFetch(f, i) ==
  IF caches.present
  THEN [f EXCEPT ![i].state = "open"]
  ELSE [f EXCEPT ![i].state = "xfer", ![i].opened = TRUE]

\* Mutant of ReturnValue: unwrap only when the argument was a single string.
ReturnValueByArgument(ts) ==
  IF ~url.isArray
  THEN [kind |-> "single", val |-> ts[1].result]
  ELSE [kind |-> "list", val |-> [i \in 1..Len(ts) |-> ts[i].result]]

\* The value of the call (lines 146-148).
ReturnValue(ts) ==
  IF Len(ts) = 1
  THEN [kind |-> "single", val |-> ts[1].result]
  ELSE [kind |-> "list", val |-> [i \in 1..Len(ts) |-> ts[i].result]]

\* await Promise.all(threads) (line 144), given the threads as they now are:
\* rejected with the first rejection, fulfilled once every thread is.
PromiseAll(th, ts, cause) ==
  IF \E k \in 1..Len(th) : th[k].state = "rejected"
  THEN /\ mainPc' = "rejected"
       /\ outcome' = [kind |-> "error", val |-> cause]
  ELSE IF \A k \in 1..Len(th) : th[k].state = "fulfilled"
  THEN /\ mainPc' = "returned"
       /\ outcome' = [kind |-> "value", val |-> ReturnValue(ts)]
  ELSE /\ mainPc' = "joining"
       /\ UNCHANGED outcome

\* Mutant of RunDownloadThread: a thread that finds no unstarted task throws
\* instead of returning.
RunDownloadThreadThrows(k, ts, f, th) ==
  LET j == FindUnstarted(ts) IN
  IF j = 0
  THEN [ts |-> ts, f |-> f, th |-> [th EXCEPT ![k] = [state |-> "rejected", task |-> 0]]]
  ELSE [ts |-> [ts EXCEPT ![j].started = TRUE],
        f |-> StartFetch([f EXCEPT ![j].thread = k], j),
        th |-> [th EXCEPT ![k] = [state |-> "running", task |-> j]]]

\* Mutant of RunDownloadThread: the thread does not await the fetch of the
\* task it claimed, so one pass claims and fetches every unstarted task.
RunDownloadThreadNoAwait(k, ts, f, th) ==
  LET j == FindUnstarted(ts) IN
  IF j = 0
  THEN [ts |-> ts, f |-> f, th |-> [th EXCEPT ![k] = [state |-> "fulfilled", task |-> 0]]]
  ELSE [ts |-> [i \in 1..Len(ts) |-> [ts[i] EXCEPT !.started = TRUE]],
        f |-> [i \in 1..Len(f) |->
                 IF ts[i].started THEN f[i]
                 ELSE StartFetch([f EXCEPT ![i].thread = k], i)[i]],
        th |-> [th EXCEPT ![k] = [state |-> "running", task |-> j]]]

\* One pass of the loop of runDownloadThread (lines 123-127) made by thread k
\* on tasks ts and fetches f: claim the first unstarted task and call
\* _loadBinaryResource for it, or return.
RunDownloadThread(k, ts, f, th) ==
  LET j == FindUnstarted(ts) IN
  IF j = 0
  THEN [ts |-> ts, f |-> f, th |-> [th EXCEPT ![k] = [state |-> "fulfilled", task |-> 0]]]
  ELSE [ts |-> [ts EXCEPT ![j].started = TRUE],
        f |-> StartFetch([f EXCEPT ![j].thread = k], j),
        th |-> [th EXCEPT ![k] = [state |-> "running", task |-> j]]]

\* Mutant of SpawnThread: one thread is spawned for each task, whatever
\* nMaxParallel is.
SpawnThreadPerTask ==
  /\ mainPc = "spawn"
  /\ Len(threads) < Len(tasks)
  /\ LET k == Len(threads) + 1
         r == RunDownloadThread(k, tasks, fx,
                                Append(threads, [state |-> "running", task |-> 0]))
     IN /\ tasks' = r.ts
        /\ fx' = r.f
        /\ threads' = r.th
  /\ UNCHANGED <<url, nMaxParallel, progressCallback, headers, probesSent, caches, mainPc, sizeArr,
                 totalSize, outcome, cbLast>>

\* threads.push(runDownloadThread()) (lines 140-142), one pass of the for loop.
SpawnThread ==
  /\ mainPc = "spawn"
  /\ Len(threads) < nMaxParallel
  /\ LET k == Len(threads) + 1
         r == RunDownloadThread(k, tasks, fx,
                                Append(threads, [state |-> "running", task |-> 0]))
     IN /\ tasks' = r.ts
        /\ fx' = r.f
        /\ threads' = r.th
  /\ UNCHANGED <<url, nMaxParallel, progressCallback, headers, probesSent, caches, mainPc, sizeArr,
                 totalSize, outcome, cbLast>>

\* The for loop is over: await Promise.all(threads) (line 144).
AwaitThreads ==
  /\ mainPc = "spawn"
  /\ ~(Len(threads) < nMaxParallel)
  /\ PromiseAll(threads, tasks, <<"none", 0>>)
  /\ UNCHANGED <<url, nMaxParallel, progressCallback, headers, probesSent, caches, tasks, sizeArr,
                 totalSize, threads, fx, cbLast>>

\* The thread that claimed task i.
ThreadOf(i) == fx[i].thread

\* Mutant of ResultSlot: the bytes go to the first task still without a
\* result, so the results come in the order of completion.
ResultSlotByCompletion(i) ==
  CHOOSE j \in 1..Len(tasks) :
    tasks[j].result = <<>> /\ \A k \in 1..(j - 1) : tasks[k].result # <<>>

\* The task a thread writes the bytes of its fetch to: the one it claimed.
ResultSlot(i) == i

\* The promise of Promise.all once the threads are th, when it was pending.
Joined(th, ts, cause) ==
  IF mainPc = "joining"
  THEN PromiseAll(th, ts, cause)
  ELSE UNCHANGED <<mainPc, outcome>>

\* _loadBinaryResource of task i resolves with bytes: the thread stores them
\* in task.result (line 127) and goes round its loop again.
Resolved(i, bytes, f) ==
  LET r == RunDownloadThread(
             ThreadOf(i),
             [tasks EXCEPT ![ResultSlot(i)].result = bytes],
             [f EXCEPT ![i].state = "resolved"],
             threads)
  IN /\ tasks' = r.ts
     /\ fx' = r.f
     /\ threads' = r.th
     /\ Joined(r.th, r.ts, <<"none", 0>>)

\* _loadBinaryResource of task i rejects with the error of the request
\* ("fetch") or of the cache ("cache"): so does the thread that awaits it.
Rejected(i, f, cause) ==
  LET th == [threads EXCEPT ![ThreadOf(i)].state = "rejected"] IN
  /\ fx' = [f EXCEPT ![i].state = "rejected"]
  /\ threads' = th
  /\ Joined(th, tasks, <<cause, i>>)
  /\ UNCHANGED tasks

\* Mutant of TurnOver: events are also delivered between two passes of the
\* loop that spawns the threads.
TurnOverOrSpawning == mainPc \in {"probing", "spawn", "joining", "returned", "rejected"}

\* No turn is running: the next event may be delivered.
TurnOver == mainPc \in {"probing", "joining", "returned", "rejected"}

\* --------------------------------------------- the fetch of one task
\* Mutant of CacheMatch: the cache is never found to hold anything.
CacheMatchNever(store, u) == [found |-> FALSE, bytes |-> <<>>]

\* cache.match(url) (line 13) and the bytes of the response it finds.
CacheMatch(store, u) ==
  IF u \in DOMAIN store
  THEN [found |-> TRUE, bytes |-> store[u]]
  ELSE [found |-> FALSE, bytes |-> <<>>]

\* cache.put(url, new Response(arrayBuffer)) (line 33).
CachePut(store, u, bytes) ==
  [v \in (DOMAIN store) \cup {u} |-> IF v = u THEN bytes ELSE store[v]]

\* Mutant of AggregateLoaded: the bytes of the reporting task alone.
OwnLoaded(ts, i) == ts[i].sizeLoaded

\* loaded of the caller's callback: sumArr(tasks.map(t => t.sizeLoaded)) (line 133).
AggregateLoaded(ts, i) == sumArr([k \in 1..Len(ts) |-> Num(ts[k].sizeLoaded)]).v

\* await window.caches.open('wllama_cache') (line 12) is answered for task
\* i: the fetch goes on to await cache.match(url) (line 13).
CacheOpened ==
  \E i \in 1..Len(fx) :
    /\ TurnOver
    /\ fx[i].state = "open"
    /\ fx' = [fx EXCEPT ![i].state = "match"]
    /\ UNCHANGED <<url, nMaxParallel, progressCallback, headers, probesSent, caches, mainPc, tasks,
                   sizeArr, totalSize, threads, outcome, cbLast>>

\* cache.match(url) is answered for task i (lines 13-15): on a hit the fetch
\* awaits cachedResponse.arrayBuffer() (line 16), on a miss the request is
\* sent (lines 24-45).
CacheMatched ==
  \E i \in 1..Len(fx) :
    /\ TurnOver
    /\ fx[i].state = "match"
    /\ LET u == tasks[i].url
           m == CacheMatch(caches.store, u)
           f == [fx EXCEPT ![i].lookup =
                   IF u \in DOMAIN caches.store THEN "hit" ELSE "miss"]
       IN fx' = IF m.found
                THEN [f EXCEPT ![i].state = "arrayBuffer"]
                ELSE [f EXCEPT ![i].state = "xfer", ![i].opened = TRUE]
    /\ UNCHANGED <<url, nMaxParallel, progressCallback, headers, probesSent, caches, mainPc, tasks,
                   sizeArr, totalSize, threads, outcome, cbLast>>

\* cachedResponse.arrayBuffer() is answered for task i (lines 16-18): the
\* fetch returns the cached bytes.
CacheRead ==
  \E i \in 1..Len(fx) :
    /\ TurnOver
    /\ fx[i].state = "arrayBuffer"
    /\ Resolved(i, CacheMatch(caches.store, tasks[i].url).bytes, fx)
    /\ UNCHANGED <<url, nMaxParallel, progressCallback, headers, probesSent, caches, sizeArr, totalSize,
                   cbLast>>

\* caches.open, cache.match or arrayBuffer() rejects for task i (lines 12,
\* 13, 16): nothing catches it, so _loadBinaryResource rejects.
CacheError ==
  \E i \in 1..Len(fx) :
    /\ TurnOver
    /\ fx[i].state \in {"open", "match", "arrayBuffer"}
    /\ Rejected(i, fx, "cache")
    /\ UNCHANGED <<url, nMaxParallel, progressCallback, headers, probesSent, caches, sizeArr, totalSize,
                   cbLast>>

\* req.onprogress (lines 127-137): the transfer of task i reports more bytes.
Progress ==
  \E i \in 1..Len(fx) :
    /\ TurnOver
    /\ fx[i].state = "xfer"
    /\ \E l \in (tasks[i].sizeLoaded + 1)..Len(Content(tasks[i].url)) :
         LET ts == [tasks EXCEPT ![i].sizeTotal = Len(Content(tasks[i].url)),
                                 ![i].sizeLoaded = l]
         IN /\ tasks' = ts
            /\ fx' = [fx EXCEPT ![i].progressed = TRUE]
            /\ IF reportProgress(progressCallback)
               THEN cbLast' = [called |-> TRUE, loaded |-> AggregateLoaded(ts, i),
                               total |-> totalSize]
               ELSE UNCHANGED cbLast
    /\ UNCHANGED <<url, nMaxParallel, progressCallback, headers, probesSent, caches, mainPc, sizeArr,
                   totalSize, threads, outcome>>

\* req.onload with a response (lines 28-35): with a cache the handler awaits
\* cache.put, without one it resolves.
Load ==
  \E i \in 1..Len(fx) :
    /\ TurnOver
    /\ fx[i].state = "xfer"
    /\ LET f == [fx EXCEPT ![i].xhrEvent = "load"] IN
       IF caches.present
       THEN /\ fx' = [f EXCEPT ![i].state = "store"]
            /\ UNCHANGED <<tasks, threads, mainPc, outcome>>
       ELSE Resolved(i, Content(tasks[i].url), f)
    /\ UNCHANGED <<url, nMaxParallel, progressCallback, headers, probesSent, caches, sizeArr, totalSize,
                   cbLast>>

\* req.onload with req.response null (line 30): the handler does nothing, and
\* nothing is left that could settle the promise.
LoadNoBody ==
  \E i \in 1..Len(fx) :
    /\ TurnOver
    /\ fx[i].state = "xfer"
    /\ fx' = [fx EXCEPT ![i].xhrEvent = "loadNoBody", ![i].state = "stuck"]
    /\ UNCHANGED <<url, nMaxParallel, progressCallback, headers, probesSent, caches, mainPc, tasks,
                   sizeArr, totalSize, threads, outcome, cbLast>>

\* req.onerror (lines 41-43).
XhrError ==
  \E i \in 1..Len(fx) :
    /\ TurnOver
    /\ fx[i].state = "xfer"
    /\ Rejected(i, [fx EXCEPT ![i].xhrEvent = "error"], "fetch")
    /\ UNCHANGED <<url, nMaxParallel, progressCallback, headers, probesSent, caches, sizeArr, totalSize,
                   cbLast>>

\* The request is aborted: no handler is set for the abort event (lines 24-45).
XhrAbort ==
  \E i \in 1..Len(fx) :
    /\ TurnOver
    /\ fx[i].state = "xfer"
    /\ fx' = [fx EXCEPT ![i].xhrEvent = "abort", ![i].state = "stuck"]
    /\ UNCHANGED <<url, nMaxParallel, progressCallback, headers, probesSent, caches, mainPc, tasks,
                   sizeArr, totalSize, threads, outcome, cbLast>>

\* cache.put fulfils (lines 33-35): the handler resolves with the bytes.
PutDone ==
  \E i \in 1..Len(fx) :
    /\ TurnOver
    /\ fx[i].state = "store"
    /\ LET u == tasks[i].url IN
       /\ caches' = [caches EXCEPT !.store = CachePut(caches.store, u, Content(u))]
       /\ Resolved(i, Content(u), [fx EXCEPT ![i].putEvent = "ok"])
    /\ UNCHANGED <<url, nMaxParallel, progressCallback, headers, probesSent, sizeArr, totalSize,
                   cbLast>>

\* cache.put rejects (line 33): the await throws inside the async onload
\* handler, so line 35 is never reached.
PutFail ==
  \E i \in 1..Len(fx) :
    /\ TurnOver
    /\ fx[i].state = "store"
    /\ fx' = [fx EXCEPT ![i].putEvent = "fail", ![i].state = "stuck"]
    /\ UNCHANGED <<url, nMaxParallel, progressCallback, headers, probesSent, caches, mainPc, tasks,
                   sizeArr, totalSize, threads, outcome, cbLast>>

Next ==
  \/ Begin
  \/ ProbeHeaders
  \/ ProbeError
  \/ SpawnThread
  \/ AwaitThreads
  \/ CacheOpened
  \/ CacheMatched
  \/ CacheRead
  \/ CacheError
  \/ Progress
  \/ Load
  \/ LoadNoBody
  \/ XhrError
  \/ XhrAbort
  \/ PutDone
  \/ PutFail

Spec == Init /\ [][Next]_vars

\* The call with a progress callback against any server.
SpecHeaders == InitHeaders /\ [][Next]_vars

\* ------------------------------------------------------------- claims
Returned == mainPc = "returned"
Failed == mainPc = "rejected" /\ outcome.val[1] \in {"fetch", "cache"}
InFlight(i) == fx[i].state \in {"open", "match", "arrayBuffer", "xfer", "store"}
\* The fetch of task i was rejected by the cache, not by its request.
CacheFailed(i) == fx[i].state = "rejected" /\ fx[i].xhrEvent = "none"
BodyRequests == Cardinality({i \in 1..Len(fx) : fx[i].opened})
ResultBytes == sumArr([i \in 1..Len(tasks) |-> Num(Len(tasks[i].result))]).v

\* What the caller holds once the call has settled: the results when the
\* promise is fulfilled, no result at all when it is rejected.
Delivered ==
  IF outcome.kind # "value" THEN <<>>
  ELSE IF outcome.val.kind = "single" THEN <<outcome.val.val>>
  ELSE outcome.val.val

\* u was in the cache when the call began: it is there, and no task of this
\* call put it there.
CachedBefore(u) ==
  /\ caches.present
  /\ u \in DOMAIN caches.store
  /\ \A i \in 1..Len(fx) : tasks[i].url = u => fx[i].putEvent # "ok"
AllCachedBefore ==
  /\ mainPc # "called"
  /\ Len(tasks) >= 1
  /\ \A i \in 1..Len(tasks) : CachedBefore(tasks[i].url)

\* C1: a call with nMaxParallel >= 1 and a non-empty list of urls that
\* returns (every fetch has succeeded) returns one entry per url, entry i
\* being the bytes of url i, whatever the order the transfers completed in.
\* For a single url the list is returned as its only entry (see C2).
C1_ResultsInInputOrder ==
  (Returned /\ nMaxParallel >= 1 /\ Len(UrlList(url)) >= 1) =>
    LET urls == UrlList(url) IN
    /\ Len(Delivered) = Len(urls)
    /\ \A i \in 1..Len(urls) : Delivered[i] = Content(urls[i])

\* C1 witness: three urls fetched by two threads; thread 2 claimed the third
\* task, so the second transfer completed before the first.
C1_Witness ==
  /\ Returned
  /\ nMaxParallel = 2
  /\ Len(tasks) = 3
  /\ fx[3].thread = 2
  /\ fx[1].opened /\ fx[2].opened
  /\ Delivered = <<Content(tasks[1].url), Content(tasks[2].url), Content(tasks[3].url)>>

\* C2: the call returns the bare buffer of the only task when exactly one
\* url was given (as a string or as an array of one), and otherwise the list
\* of the tasks' buffers in input order, one per url.
C2_SingleUnwrapped ==
  Returned =>
    LET urls == UrlList(url)
        v == outcome.val
    IN IF Len(urls) = 1
       THEN v.kind = "single" /\ v.val = tasks[1].result
       ELSE /\ v.kind = "list"
            /\ Len(v.val) = Len(urls)
            /\ \A i \in 1..Len(urls) : v.val[i] = tasks[i].result

\* C2 witness: an array of one url, fetched, returns the bare buffer.
C2_Witness ==
  /\ Returned
  /\ url.isArray
  /\ Len(url.val) = 1
  /\ outcome.val.kind = "single"
  /\ outcome.val.val = Content(url.val[1])

\* C3: when the call reports the failure of a fetch, no task is in flight any
\* more: every thread has exited.
C3_FailureAfterPoolFinished ==
  Failed => \A i \in 1..Len(fx) : ~InFlight(i)

\* C4: when the transfer of one task has failed and every other task has
\* completed, the call has failed and the caller holds the partial results:
\* the buffers of the completed tasks, and an empty one for the failed task.
C4_PartialResultsDelivered ==
  \A i \in 1..Len(fx) :
    ( /\ fx[i].xhrEvent = "error"
      /\ \A j \in (1..Len(fx)) \ {i} : fx[j].state = "resolved" ) =>
        /\ mainPc = "rejected"
        /\ Len(Delivered) = Len(tasks)
        /\ \A j \in 1..Len(tasks) :
             Delivered[j] = IF j = i THEN <<>> ELSE Content(tasks[j].url)

\* C5: when a call with a progress callback returns, the loaded of the latest
\* invocation of the callback is the sum of the sizes of all its results,
\* those read from the cache and those that never reported progress included.
C5_FinalLoadedIsAllBytes ==
  (Returned /\ reportProgress(progressCallback) /\ cbLast.called) =>
    cbLast.loaded = ResultBytes

\* C6: from one invocation of the caller's callback to the next, loaded never
\* decreases.
C6_LoadedNeverDecreases ==
  [][(cbLast.called /\ cbLast' # cbLast) => cbLast'.loaded >= cbLast.loaded]_vars

\* C6 witness: two transfers in flight have both reported progress.
C6_Witness ==
  /\ cbLast.called
  /\ \E i, j \in 1..Len(fx) :
       /\ i # j
       /\ fx[i].state = "xfer" /\ fx[j].state = "xfer"
       /\ tasks[i].sizeLoaded = 2 /\ tasks[j].sizeLoaded = 1
       /\ cbLast.loaded = 3

\* C7: a task whose url cache.match found is reading the cached bytes or has
\* returned them (or the cache failed to read them), with no request sent
\* for it and no progress event of its own.
C7_CacheHitNoTransfer ==
  \A i \in 1..Len(fx) :
    fx[i].lookup = "hit" =>
      /\ fx[i].state = "arrayBuffer" \/ fx[i].state = "resolved" \/ CacheFailed(i)
      /\ fx[i].state = "resolved" => tasks[i].result = caches.store[tasks[i].url]
      /\ ~fx[i].opened
      /\ ~fx[i].progressed
      /\ tasks[i].sizeLoaded = 0

\* C7 witness: one task was served from the cache while another one was
\* downloaded and reported progress to the caller.
C7_Witness ==
  \E i, j \in 1..Len(fx) :
    /\ fx[i].lookup = "hit" /\ tasks[i].result = Content(tasks[i].url)
    /\ fx[j].lookup = "miss" /\ fx[j].progressed
    /\ cbLast.called

\* C8 as stated: when every url of the call was cached before it, no request
\* of any kind is sent and the callback is never invoked, with or without a
\* progress callback.
C8_CachedNoTransport ==
  AllCachedBefore => (probesSent = 0 /\ BodyRequests = 0 /\ ~cbLast.called)

\* C8 amended: when every url of the call was cached before it, no body is
\* transferred and the callback is never invoked; without a progress callback
\* no request at all is sent, with one the size probes are (one per url).
C8_CachedNoBodyTransfer ==
  AllCachedBefore =>
    /\ BodyRequests = 0
    /\ ~cbLast.called
    /\ probesSent = IF progressCallback = "function" THEN Len(tasks) ELSE 0

\* C8 witness: a call with a progress callback, all of its urls cached, has
\* returned their bytes after probing their sizes.
C8_Witness ==
  /\ AllCachedBefore
  /\ Returned
  /\ progressCallback = "function"
  /\ Len(tasks) = 2
  /\ probesSent = 2
  /\ Delivered = <<Content(tasks[1].url), Content(tasks[2].url)>>

\* C9: a task whose cache.put failed still has its fetch resolved with the
\* downloaded bytes.
C9_StoreFailureSwallowed ==
  \A i \in 1..Len(fx) :
    fx[i].putEvent = "fail" =>
      (fx[i].state = "resolved" /\ tasks[i].result = Content(tasks[i].url))

\* C10: a transfer that ended in an error, an abort or a load without a
\* response has its fetch rejected.
C10_TransportFailureRejects ==
  \A i \in 1..Len(fx) :
    fx[i].xhrEvent \in {"error", "abort", "loadNoBody"} => fx[i].state = "rejected"

\* C11: with a progress callback, once the size probe of some url has failed
\* (a network error, or a header getBinarySize rejects) the call is rejected
\* with that failure, and a call one of whose urls has such a header never
\* gets past the probes: no thread is spawned, no task is started, no cache
\* lookup or transfer is made and the callback is never invoked.
AnyProbeRejected == \E i \in 1..Len(sizeArr) : sizeArr[i].state = "rejected"
SomeHeaderRejected ==
  /\ reportProgress(progressCallback)
  /\ \E i \in 1..Len(tasks) : ~getBinarySize(headers[tasks[i].url]).ok
C11_ProbeFailureFailsFast ==
  (AnyProbeRejected \/ SomeHeaderRejected) =>
    /\ mainPc \in {"probing", "rejected"}
    /\ AnyProbeRejected => (mainPc = "rejected" /\ outcome.val[1] = "probe")
    /\ threads = <<>>
    /\ \A i \in 1..Len(tasks) : ~tasks[i].started /\ fx[i] = NoFetch
    /\ ~cbLast.called

\* C11 witness: the probe of the first of two urls has resolved and the one
\* of the second, whose Content-Length is "1x", has been rejected.
C11_Witness ==
  /\ mainPc = "rejected"
  /\ Len(sizeArr) = 2
  /\ sizeArr[1].state = "resolved"
  /\ sizeArr[2].state = "rejected"
  /\ headers[tasks[2].url] = Header(<<"1", "x">>)
  /\ outcome.val = <<"probe", 2>>

\* A Content-Length that is a non-negative integer.
IsLength(h) == ~h.null /\ h.text # <<>> /\ AllDigits(h.text)

\* C12: a probe resolves only when the Content-Length of its url is a
\* non-negative integer, so a call that got past the probes has a total that
\* is the sum of such lengths.
C12_ProbeRejectsBadLength ==
  /\ \A i \in 1..Len(sizeArr) :
       sizeArr[i].state = "resolved" => IsLength(headers[tasks[i].url])
  /\ (reportProgress(progressCallback) /\ mainPc \in {"spawn", "joining", "returned"}) =>
       /\ \A i \in 1..Len(tasks) : IsLength(headers[tasks[i].url])
       /\ ~totalSize.nan
       /\ totalSize.v >= 0

\* C13: a call with nMaxParallel <= 0 and at least one url that returns has
\* started every task and returns the bytes of every url, as a call with
\* nMaxParallel = 1 does.
C13_NonPositiveParallelFetchesAll ==
  (Returned /\ nMaxParallel <= 0 /\ Len(tasks) >= 1) =>
    /\ \A i \in 1..Len(tasks) : tasks[i].started
    /\ Len(Delivered) = Len(tasks)
    /\ \A i \in 1..Len(tasks) : Delivered[i] = Content(tasks[i].url)

\* The tasks that have been started and whose fetch has not settled.
Unsettled ==
  {i \in 1..Len(tasks) :
     tasks[i].started /\ (InFlight(i) \/ fx[i].state = "stuck")}

\* C14: at every point of a call the number of started tasks whose fetch has
\* not settled is at most nMaxParallel and at most the number of urls.
C14_UnsettledAtMostParallel ==
  /\ Cardinality(Unsettled) <= nMaxParallel
  /\ Cardinality(Unsettled) <= Len(tasks)

\* C14 witness: two threads and three urls; the first fetch has resolved and
\* the other two, as many as there are threads, are being transferred.
C14_Witness ==
  /\ nMaxParallel = 2
  /\ Len(tasks) = 3
  /\ fx[1].state = "resolved"
  /\ Unsettled = {2, 3}
  /\ fx[2].state = "xfer" /\ fx[3].state = "xfer"

\* C15: once the threads of a call with more threads than urls are spawned,
\* thread i has claimed task i for each of the n urls and claims nothing
\* else, every further thread has returned without claiming a task, the call
\* fails only if a fetch fails, and a call that returns returns the bytes of
\* every url in input order.
C15_ExtraThreadsExitAtOnce ==
  (nMaxParallel > Len(tasks) /\ threads # <<>> /\ mainPc # "spawn") =>
    /\ Len(threads) = nMaxParallel
    /\ \A i \in 1..Len(tasks) : tasks[i].started /\ ThreadOf(i) = i
    /\ \A k \in 1..Len(threads) :
         IF k <= Len(tasks)
         THEN threads[k].task \in {0, k}
         ELSE threads[k] = [state |-> "fulfilled", task |-> 0]
    /\ mainPc = "rejected" => Failed
    /\ Returned =>
         /\ Len(Delivered) = Len(tasks)
         /\ \A i \in 1..Len(tasks) : Delivered[i] = Content(tasks[i].url)

\* C15 witness: two threads for one url; the first is still transferring it
\* and the second has already returned.
C15_Witness ==
  /\ mainPc = "joining"
  /\ nMaxParallel = 2
  /\ Len(tasks) = 1
  /\ fx[1].state = "xfer"
  /\ threads = <<[state |-> "running", task |-> 1], [state |-> "fulfilled", task |-> 0]>>

\* C16: with nMaxParallel = 1 a task is started only once the fetch of the
\* task before it has resolved, so at most one fetch is unsettled and the
\* fetches resolve in input order.
C16_OneThreadInInputOrder ==
  nMaxParallel = 1 =>
    /\ \A i \in 1..(Len(tasks) - 1) :
         tasks[i + 1].started =>
           fx[i].state = "resolved" /\ tasks[i].result = Content(tasks[i].url)
    /\ Cardinality({i \in 1..Len(tasks) : InFlight(i)}) <= 1
    /\ \A i, j \in 1..Len(tasks) :
         (i < j /\ fx[j].state = "resolved") => fx[i].state = "resolved"

\* C16 witness: one thread and three urls; the first two fetches have
\* resolved and the third is being transferred.
C16_Witness ==
  /\ nMaxParallel = 1
  /\ Len(tasks) = 3
  /\ fx[1].state = "resolved" /\ fx[2].state = "resolved"
  /\ fx[3].state = "xfer"
  /\ fx[1].opened /\ fx[2].opened

\* How far the fetch of a task has come.
FetchRank(st) ==
  CASE st = "none" -> 0
    [] st = "open" -> 1
    [] st = "match" -> 2
    [] st = "arrayBuffer" -> 3
    [] st = "xfer" -> 3
    [] st = "store" -> 4
    [] OTHER -> 5

\* A step claims each task at most once: a started task stays started and
\* stays with the thread that claimed it, an unstarted task has no thread
\* and no fetch, and a fetch once begun is never begun again.
ClaimedOnce ==
  /\ \A i \in 1..Len(tasks) :
       /\ tasks[i].started => (tasks'[i].started /\ fx'[i].thread = fx[i].thread)
       /\ FetchRank(fx'[i].state) >= FetchRank(fx[i].state)
       /\ FetchRank(fx[i].state) = 5 => fx'[i].state = fx[i].state
       /\ fx[i].lookup # "none" => fx'[i].lookup = fx[i].lookup
       /\ fx[i].opened => fx'[i].opened
  /\ \A i \in 1..Len(tasks') :
       IF tasks'[i].started
       THEN fx'[i].thread \in 1..Len(threads') /\ fx'[i].state # "none"
       ELSE fx'[i] = NoFetch

\* No url has had the fetch of two tasks begun.
NoUrlFetchedTwice ==
  \A i, j \in 1..Len(tasks) :
    (i # j /\ tasks[i].url = tasks[j].url) =>
      (fx[i].state = "none" \/ fx[j].state = "none")

\* C17 as stated: every task is claimed by at most one thread, its started
\* flag never returns to false, and no url is fetched twice in one call.
C17_NoIdentifierFetchedTwice == [][ClaimedOnce /\ NoUrlFetchedTwice']_vars

\* C17 amended: every task is claimed by at most one thread, its started flag
\* never returns to false and its fetch is begun once; a url listed several
\* times is fetched once for each task that lists it.
C17_TaskClaimedOnce == [][ClaimedOnce]_vars

\* C17 witness: the same url listed twice with two threads; each thread has
\* claimed one of the two tasks and both have sent a request for the url.
C17_Witness ==
  /\ nMaxParallel = 2
  /\ Len(tasks) = 2
  /\ tasks[1].url = tasks[2].url
  /\ tasks[1].started /\ tasks[2].started
  /\ ThreadOf(1) = 1 /\ ThreadOf(2) = 2
  /\ fx[1].opened /\ fx[2].opened

\* Every cache lookup and every transfer of the call so far has completed
\* successfully: none is pending, and each request sent has loaded its body.
FetchesSucceeded ==
  \A i \in 1..Len(fx) :
    /\ fx[i].state \notin {"open", "match", "arrayBuffer", "xfer"}
    /\ ~CacheFailed(i)
    /\ fx[i].xhrEvent \in {"none", "load"}

\* Nothing is left to happen: the call is not in a synchronous turn, no probe
\* is pending and no fetch awaits the cache, its request or cache.put.
NothingPending ==
  /\ mainPc \notin {"called", "spawn"}
  /\ \A i \in 1..Len(sizeArr) : sizeArr[i].state # "pending"
  /\ \A i \in 1..Len(fx) : ~InFlight(i)

\* C18: a call with nMaxParallel >= 1 whose probes, cache lookups and
\* transfers have all succeeded and for which nothing is left to happen has
\* returned, with every task started, every fetch resolved and every result
\* the bytes of its url; and a thread has returned only when no unstarted
\* task remained.
C18_ReturnsWhenFetchesSucceed ==
  /\ (nMaxParallel >= 1 /\ mainPc # "called" /\ ~AnyProbeRejected
        /\ FetchesSucceeded /\ NothingPending) =>
       /\ Returned
       /\ \A i \in 1..Len(tasks) :
            /\ tasks[i].started
            /\ fx[i].state = "resolved"
            /\ tasks[i].result = Content(tasks[i].url)
  /\ \A k \in 1..Len(threads) :
       threads[k].state = "fulfilled" => \A i \in 1..Len(tasks) : tasks[i].started

\* C19: in every state the started tasks are a prefix of the list of tasks:
\* no task is started while a task before it is unstarted.
C19_StartedIsPrefix ==
  \A i, j \in 1..Len(tasks) :
    (i < j /\ tasks[j].started) => tasks[i].started

\* C19 witness: three urls and two threads, which have claimed the first two
\* tasks; the third is unstarted.
C19_Witness ==
  /\ mainPc = "joining"
  /\ nMaxParallel = 2
  /\ Len(tasks) = 3
  /\ tasks[1].started /\ tasks[2].started /\ ~tasks[3].started
  /\ InFlight(1) /\ InFlight(2)

\* The number of tasks started by the loop that spawns the threads.
FirstBatch == IF nMaxParallel < Len(tasks) THEN nMaxParallel ELSE Len(tasks)
StartedTasks == {i \in 1..Len(tasks) : tasks[i].started}
ResolvedFetches == {i \in 1..Len(tasks) : fx[i].state = "resolved"}

\* C20: while the threads are being spawned no fetch has had any event; once
\* they are spawned, and whenever a fetch has settled, the first
\* min(nMaxParallel, n) tasks are started; and a later task is started only
\* after a fetch has resolved, so the started tasks are at most that many
\* more than the resolved fetches.
C20_FirstBatchStartedTogether ==
  /\ mainPc = "spawn" =>
       \A i \in 1..Len(tasks) :
         /\ fx[i].state \in {"none", "open", "xfer"}
         /\ fx[i].lookup = "none" /\ fx[i].xhrEvent = "none" /\ ~fx[i].progressed
  /\ ((threads # <<>> /\ mainPc # "spawn")
        \/ \E i \in 1..Len(tasks) : fx[i].state \notin {"none", "open", "xfer"}) =>
       \A i \in 1..FirstBatch : tasks[i].started
  /\ Cardinality(StartedTasks) <= FirstBatch + Cardinality(ResolvedFetches)
  /\ \A j \in StartedTasks : j > FirstBatch => ResolvedFetches # {}

\* C20 witness: urls a, b and a third with two threads; a and b were started
\* together, a has resolved and its thread has started the third while b is
\* still being transferred.
C20_Witness ==
  /\ nMaxParallel = 2
  /\ Len(tasks) = 3
  /\ tasks[1].url = "a" /\ tasks[2].url = "b"
  /\ fx[1].state = "resolved"
  /\ fx[2].state = "xfer"
  /\ tasks[3].started /\ ThreadOf(3) = 1
====
